---- MODULE Spec2Model ----
(***************************************************************************)
(* State-machine model of ticktick-mcp: the OAuth2 token lifecycle         *)
(* (utils/oauth.py, utils/auth.py) and the cached TickTick REST client     *)
(* (client/api.py).                                                        *)
(*                                                                         *)
(* Time is an integer count of clock ticks, TicksPerSecond ticks to the    *)
(* second, so that a datetime has a whole-second part and a sub-second     *)
(* part, as Python's datetime has seconds and microseconds.                *)
(***************************************************************************)
EXTENDS Integers, Sequences, FiniteSets, TLC

VARIABLES
    now,          \* the clock: datetime.now() and time.monotonic()
    advances,     \* how many times the clock was advanced (bounded)
    config,       \* AuthConfig: client_id, scope, redirect_uri
    file,         \* content of the token file at config.token_path
    held,         \* OAuth2Handler._token
    ostate,       \* state of OAuth2Handler._client (httpx.AsyncClient)
    issued,       \* how many tokens the token endpoint has issued
    methodCache,  \* the TTLCache each @cached decorator owns (class level)
    selfCache,    \* TickTickClient._cache (per instance)
    backendVer,   \* version of the data held by the TickTick backend
    fetches,      \* how many times the body of a cached read has run
    stale,        \* history: the cache keys a successful write found cached
    last,         \* history: what the last operation did and returned
    pending       \* the calls in flight: where each asyncio task is suspended

vars == <<now, advances, config, file, held, ostate, issued, methodCache,
          selfCache, backendVer, fetches, stale, last, pending>>

-----------------------------------------------------------------------------
(* Bounds of the model.  CACHE_MAXSIZE is the capacity of each TTLCache:    *)
(* 100 in client/api.py, scaled down here so that a cache can fill up.     *)

TicksPerSecond == 2
CACHE_MAXSIZE == 2
MaxAdvances == 2
MaxIssued == 1
MaxWrites == 1
MaxFetches == 2

(* Program constants *)

CACHE_TTL == 300
ClassDefTime == 0

AUTH_URL == "https://ticktick.com/oauth/authorize"
NoneStr == "<None>"
NoToken == [kind |-> "none"]

-----------------------------------------------------------------------------
(* OAuth2Token *)

Ticks(seconds) == seconds * TicksPerSecond

\* is_expired as it would be if the token were still good at its expiry time
IsExpiredLate(tok, t) == t > tok.created_at + Ticks(tok.expires_in)

\* OAuth2Token.is_expired evaluated at time t
IsExpired(tok, t) == t >= tok.created_at + Ticks(tok.expires_in)

RequiredFields == {"access_token", "token_type", "expires_in"}

\* OAuth2Token(**obj): pydantic validation; created_at defaults to the value
\* datetime.now() had when the class body was executed
TokenValid(obj) == RequiredFields \subseteq DOMAIN obj

TokenFromDict(obj) ==
    [kind          |-> "token",
     access_token  |-> obj.access_token,
     token_type    |-> obj.token_type,
     expires_in    |-> obj.expires_in,
     refresh_token |-> IF "refresh_token" \in DOMAIN obj
                       THEN obj.refresh_token ELSE NoneStr,
     scope         |-> IF "scope" \in DOMAIN obj THEN obj.scope ELSE NoneStr,
     created_at    |-> IF "created_at" \in DOMAIN obj
                       THEN obj.created_at ELSE ClassDefTime]

\* str(datetime) as it would be if it always stopped at the seconds
DateStrSeconds(d) == <<d \div TicksPerSecond>>

\* str(datetime): "YYYY-MM-DD HH:MM:SS", followed by ".ffffff" only when the
\* sub-second part is not zero
DateStr(d) ==
    IF d % TicksPerSecond = 0
    THEN <<d \div TicksPerSecond>>
    ELSE <<d \div TicksPerSecond, d % TicksPerSecond>>

\* datetime.fromisoformat: accepts both forms, raises ValueError otherwise
IsoOk(s) == Len(s) \in {1, 2}

FromIso(s) ==
    IF Len(s) = 1 THEN s[1] * TicksPerSecond
    ELSE s[1] * TicksPerSecond + s[2]

-----------------------------------------------------------------------------
(* Token storage: OAuth2Handler.save_token / load_token *)

AbsentFile == [kind |-> "absent"]
GarbageFile == [kind |-> "garbage"]

\* json.dump(self._token.dict(), f, default=str): every field is written as
\* it is, created_at through str()
TokenJson(tok) ==
    [access_token  |-> tok.access_token,
     token_type    |-> tok.token_type,
     expires_in    |-> tok.expires_in,
     refresh_token |-> tok.refresh_token,
     scope         |-> tok.scope,
     created_at    |-> DateStr(tok.created_at)]

\* save_token: the file after saving token tok over file content f
SaveToken(tok, f) ==
    IF tok # NoToken THEN [kind |-> "json", obj |-> TokenJson(tok)] ELSE f

\* load_token: only FileNotFoundError and JSONDecodeError are caught; the
\* KeyError of data["created_at"], the ValueError of fromisoformat and the
\* ValidationError of OAuth2Token(**data) leave the function
LoadToken(f) ==
    IF f.kind \in {"absent", "garbage"}
    THEN [error |-> "none", token |-> NoToken]
    ELSE IF "created_at" \notin DOMAIN f.obj
    THEN [error |-> "KeyError", token |-> NoToken]
    ELSE IF ~IsoOk(f.obj.created_at)
    THEN [error |-> "ValueError", token |-> NoToken]
    ELSE IF ~TokenValid(f.obj)
    THEN [error |-> "ValidationError", token |-> NoToken]
    ELSE [error |-> "none",
          token |-> TokenFromDict(
                        [f.obj EXCEPT !.created_at = FromIso(f.obj.created_at)])]

-----------------------------------------------------------------------------
(* The token endpoint and the two exchanges *)

Truthy(s) == s \notin {NoneStr, ""}

\* The lifetimes, in seconds, the endpoint gives the tokens it issues
EndpointExpiresIn == {300}

\* What the token endpoint may answer to the exchange that would issue token
\* number id: no answer in time, a non-2xx status, a body that is no token,
\* or a token
Responses(id) ==
    {[kind |-> "timeout"], [kind |-> "status"],
     [kind |-> "malformed", obj |-> [token_type |-> "bearer"]]}
    \cup {[kind |-> "ok",
           obj |-> [access_token |-> id, token_type |-> "bearer",
                    expires_in |-> e]] : e \in EndpointExpiresIn}
    \cup {[kind |-> "ok",
           obj |-> [access_token |-> id, token_type |-> "bearer",
                    expires_in |-> e, refresh_token |-> "rt"]] :
           e \in EndpointExpiresIn}

\* The body shared by fetch_token and refresh_token:
\*   async with self._client as client:
\*       response = await client.post(...); response.raise_for_status()
\*       self._token = OAuth2Token(**response.json()); return self._token
\* os is the state of self._client; entering a client that was opened before
\* raises RuntimeError, and leaving the block closes the client.
Exchange(os, resp) ==
    IF os # "UNOPENED"
    THEN [ostate |-> os, sent |-> FALSE, error |-> "RuntimeError",
          token |-> NoToken]
    ELSE IF resp.kind = "timeout"
    THEN [ostate |-> "CLOSED", sent |-> TRUE, error |-> "TimeoutException",
          token |-> NoToken]
    ELSE IF resp.kind = "status"
    THEN [ostate |-> "CLOSED", sent |-> TRUE, error |-> "HTTPStatusError",
          token |-> NoToken]
    ELSE IF ~TokenValid(resp.obj)
    THEN [ostate |-> "CLOSED", sent |-> TRUE, error |-> "ValidationError",
          token |-> NoToken]
    ELSE [ostate |-> "CLOSED", sent |-> TRUE, error |-> "none",
          token |-> TokenFromDict(resp.obj)]

FetchToken(os, code, resp) == Exchange(os, resp)

RefreshToken(os, rt, resp) == Exchange(os, resp)

\* get_authorization_url: AUTH_URL, "?", and the query parameters in order
AuthorizationUrl ==
    <<AUTH_URL, "client_id", config.client_id, "response_type", "code",
      "scope", config.scope>>
    \o (IF Truthy(config.redirect_uri)
        THEN <<"redirect_uri", config.redirect_uri>> ELSE <<>>)

-----------------------------------------------------------------------------
(* TickTickAuth.get_token, as called by client c when the endpoint would    *)
(* answer resp.  The result names the new held token, file and client      *)
(* state, and what the caller gets.                                        *)

GetTokenCall(c, resp) ==
    LET ld == LoadToken(file)
        base == [held |-> IF ld.token # NoToken THEN ld.token ELSE held[c],
                 file |-> file, ostate |-> ostate[c], outcome |-> "ok",
                 access |-> -1, url |-> <<>>, sent |-> FALSE,
                 loaded |-> ld.token, loadError |-> ld.error,
                 storageRead |-> TRUE, fresh |-> NoToken, saved |-> FALSE,
                 exchangeError |-> "none"]
    IN  IF ld.error # "none"
        THEN [base EXCEPT !.outcome = ld.error]
        ELSE IF ld.token # NoToken /\ ~IsExpired(ld.token, now)
        THEN [base EXCEPT !.access = ld.token.access_token]
        ELSE IF ld.token # NoToken /\ Truthy(ld.token.refresh_token)
        THEN LET ex == RefreshToken(ostate[c], ld.token.refresh_token, resp)
             IN  IF ex.error = "none"
                 THEN [base EXCEPT !.held = ex.token,
                                   !.file = SaveToken(ex.token, file),
                                   !.ostate = ex.ostate,
                                   !.access = ex.token.access_token,
                                   !.sent = TRUE, !.fresh = ex.token,
                                   !.saved = TRUE]
                 ELSE [base EXCEPT !.ostate = ex.ostate, !.sent = ex.sent,
                                   !.outcome = "AuthRequired",
                                   !.url = AuthorizationUrl,
                                   !.exchangeError = ex.error]
        ELSE [base EXCEPT !.outcome = "AuthRequired",
                          !.url = AuthorizationUrl]

-----------------------------------------------------------------------------
(* cachetools: hashkey, TTLCache and the wrapper of @cached *)

Clients == {"c1"}
ReadOps == {"get_tasks", "get_projects", "get_tags"}
WriteOps == {"create_task", "update_task", "delete_task", "complete_task",
             "create_tag", "update_tag", "delete_tag"}

NoArgs == [args |-> <<>>, kwargs |-> <<>>]

\* The ways a read is called: get_tasks() and get_tasks("L1"); get_projects()
\* and get_tags() take no parameter
CallForms(op) ==
    IF op = "get_tasks"
    THEN {NoArgs, [args |-> <<"L1">>, kwargs |-> <<>>]}
    ELSE {NoArgs}

\* cachetools.keys.hashkey(self, *args, **kwargs): the positional arguments,
\* then a marker and the keyword items when there are keyword arguments
HashKey(c, form) ==
    <<c>> \o form.args
    \o (IF form.kwargs = <<>> THEN <<>> ELSE <<"kwmark">> \o form.kwargs)

\* list_id as the body of get_tasks sees it
ListId(form) ==
    IF Len(form.args) > 0 THEN form.args[1]
    ELSE IF Len(form.kwargs) > 1 THEN form.kwargs[2]
    ELSE NoneStr

NoEntry == [kind |-> "none"]

HasKey(q, k) == \E i \in 1..Len(q) : q[i].key = k

EntryOf(q, k) ==
    IF HasKey(q, k) THEN q[CHOOSE i \in 1..Len(q) : q[i].key = k] ELSE NoEntry

\* The time an entry inserted at time t expires: timer() + ttl
ExpiresAt(t) == t + Ticks(CACHE_TTL)

\* The lookup as it would be if an entry were still returned at its expiry
LiveAtExpiry(e, t) == t <= e.expires

\* TTLCache.__getitem__: an entry is returned while timer() < link.expires
Live(e, t) == t < e.expires

\* TTLCache.expire(time): drops every entry that is no longer live
CacheExpire(q, t) ==
    LET Keep(e) == Live(e, t) IN SelectSeq(q, Keep)

\* __getlink: a looked-up key becomes the most recently used
CacheTouch(q, k) ==
    LET Other(e) == e.key # k
        Same(e) == e.key = k
    IN  SelectSeq(q, Other) \o SelectSeq(q, Same)

RECURSIVE CacheShrink(_, _)
\* Cache.__setitem__: while currsize + 1 > maxsize, popitem() removes the
\* least recently used entry
CacheShrink(q, maxsize) ==
    IF Len(q) + 1 > maxsize /\ Len(q) > 0
    THEN CacheShrink(Tail(q), maxsize)
    ELSE q

\* TTLCache.__setitem__(key, value) at time t
CacheSet(q, k, v, t, maxsize) ==
    LET live == CacheExpire(q, t)
        Other(e) == e.key # k
        rest == SelectSeq(live, Other)
        room == IF HasKey(live, k) THEN rest ELSE CacheShrink(rest, maxsize)
    IN  Append(room, [key |-> k, coro |-> v, expires |-> ExpiresAt(t)])

-----------------------------------------------------------------------------
(* asyncio tasks: the calls that may be in flight at the same time, each   *)
(* suspended at an await or not in a call at all.                          *)

Tasks == {"t1", "t2"}
Idle == [pc |-> "idle"]

-----------------------------------------------------------------------------
(* Observations: what the last operation did and what its caller got *)

\* What an operation remembers of the one before it: the token that one
\* returned, when it was a successful handle_oauth_callback
Summary(l) ==
    IF l.op = "callback" /\ l.outcome = "ok" THEN l.token ELSE NoToken

\* No protocol-level request was answered
NoReply == [kind |-> "none"]

\* The backend was not to answer a request for the projects with a list
NoProjects == <<NoneStr>>

Blank ==
    [op |-> "none", name |-> "none", key |-> <<>>, request |-> <<>>,
     at |-> 0,
     outcome |-> "none", value |-> <<>>, access |-> -1, url |-> <<>>,
     computed |-> FALSE, hit |-> FALSE, entryBefore |-> NoEntry,
     wasStale |-> FALSE, startVer |-> 0, sent |-> FALSE, saved |-> FALSE,
     storageRead |-> FALSE,
     loadError |-> "none", exchangeError |-> "none", accepts |-> FALSE,
     loaded |-> NoToken, token |-> NoToken, follows |-> NoToken,
     events |-> <<>>,
     request_via |-> "client", request_arg |-> "", backend |-> NoProjects,
     reply |-> NoReply]

\* The part of an observation that get_token fills in
TokenObs(obs, tk, resp) ==
    [obs EXCEPT !.access = tk.access, !.url = tk.url, !.sent = tk.sent,
                !.saved = tk.saved, !.storageRead = tk.storageRead,
                !.loadError = tk.loadError,
                !.exchangeError = tk.exchangeError,
                !.accepts = (resp.kind = "ok"),
                !.loaded = tk.loaded,
                !.token = IF tk.fresh # NoToken THEN tk.fresh ELSE tk.loaded]

-----------------------------------------------------------------------------
(* The initial state: a process that has just imported the package and     *)
(* built one client; the token file is whatever an earlier run, or         *)
(* anything else, left at token_path.                                      *)

DefaultScope == "tasks:write tasks:read"

\* Tokens an earlier run saved, five minutes or half a second before this
\* run started, with a lifetime of five minutes or of an hour
StoredTokens ==
    {[kind |-> "token", access_token |-> 0, token_type |-> "bearer",
      expires_in |-> e, refresh_token |-> r, scope |-> DefaultScope,
      created_at |-> t] :
        e \in {300, 3600}, r \in {NoneStr, "rt"},
        t \in {ClassDefTime - Ticks(300), ClassDefTime - 1}}

BrokenFiles ==
    {GarbageFile,
     [kind |-> "json",
      obj |-> [access_token |-> 0, token_type |-> "bearer",
               expires_in |-> 300, refresh_token |-> "rt",
               scope |-> DefaultScope]],
     [kind |-> "json",
      obj |-> [access_token |-> 0, token_type |-> "bearer",
               expires_in |-> 300, refresh_token |-> "rt",
               scope |-> DefaultScope, created_at |-> <<>>]],
     [kind |-> "json",
      obj |-> [token_type |-> "bearer", expires_in |-> 300,
               refresh_token |-> "rt", scope |-> DefaultScope,
               created_at |-> <<0>>]]}

InitFiles ==
    {AbsentFile} \cup BrokenFiles
    \cup {SaveToken(t, AbsentFile) : t \in StoredTokens}

\* The client as a whole starts with no token file, or with a token that
\* stays valid for an hour
ClientFiles ==
    {AbsentFile}
    \cup {SaveToken(t, AbsentFile) :
             t \in {s \in StoredTokens :
                       /\ s.expires_in = 3600
                       /\ s.created_at = ClassDefTime - 1
                       /\ ~Truthy(s.refresh_token)}}

Configs ==
    {[client_id |-> "cid", scope |-> DefaultScope, redirect_uri |-> r] :
        r \in {NoneStr, "http://localhost/callback"}}

InitFor(clients, files, configs) ==
    /\ now = ClassDefTime
    /\ advances = 0
    /\ config \in configs
    /\ file \in files
    /\ held = [c \in clients |-> NoToken]
    /\ ostate = [c \in clients |-> "UNOPENED"]
    /\ issued = 0
    /\ methodCache = [op \in ReadOps |-> <<>>]
    /\ selfCache = [c \in clients |-> <<>>]
    /\ backendVer = 0
    /\ fetches = 0
    /\ stale = {}
    /\ last = Blank
    /\ pending = [t \in Tasks |-> Idle]

\* A process with the one client of the server
InitWith(files, configs) == InitFor(Clients, files, configs)

Init == InitWith(ClientFiles, {c \in Configs : ~Truthy(c.redirect_uri)})

\* The credential manager on its own starts from any token file
AuthInit == InitWith(InitFiles, Configs)

-----------------------------------------------------------------------------
(* Operations *)

\* Time passes: by one tick, or by one tick less than the cache's TTL
Advance(d) ==
    /\ advances < MaxAdvances
    /\ advances' = advances + 1
    /\ now' = now + d
    /\ UNCHANGED <<config, file, held, ostate, issued, methodCache,
                   selfCache, backendVer, fetches, stale, last,
                   pending>>

\* Whether get_token, called by c now, would turn to the token endpoint
WouldRefresh(c) ==
    LET ld == LoadToken(file)
    IN  /\ ld.token # NoToken
        /\ IsExpired(ld.token, now)
        /\ Truthy(ld.token.refresh_token)

\* The answers the token endpoint may give now
EndpointAnswers ==
    {r \in Responses(issued + 1) : r.kind = "ok" => issued < MaxIssued}

\* The answers that matter to a get_token call of c: the endpoint's, when
\* the call asks it
RefreshAnswers(c) ==
    IF WouldRefresh(c) THEN EndpointAnswers ELSE {[kind |-> "unasked"]}

\* The effect of a get_token call on the credential state
ApplyToken(c, tk) ==
    /\ held' = [held EXCEPT ![c] = tk.held]
    /\ file' = tk.file
    /\ ostate' = [ostate EXCEPT ![c] = tk.ostate]
    /\ issued' = IF tk.fresh # NoToken THEN issued + 1 ELSE issued

\* TickTickAuth.get_token called on its own
GetToken(c, resp) ==
    \E tk \in {GetTokenCall(c, resp)} :
        /\ ApplyToken(c, tk)
        /\ last' = TokenObs([Blank EXCEPT !.op = "get_token",
                                          !.name = "get_token", !.at = now,
                                          !.outcome = tk.outcome,
                                          !.follows = Summary(last)], tk, resp)
        /\ UNCHANGED <<now, advances, config, methodCache, selfCache,
                       backendVer, fetches, stale,
                   pending>>

\* handle_oauth_callback as it would be without its save_token call
CallbackWithoutSave(c, code, resp) ==
    \E ex \in {FetchToken(ostate[c], code, resp)} :
        /\ held' = [held EXCEPT ![c] = IF ex.error = "none"
                                       THEN ex.token ELSE held[c]]
        /\ ostate' = [ostate EXCEPT ![c] = ex.ostate]
        /\ issued' = IF ex.error = "none" THEN issued + 1 ELSE issued
        /\ last' = [Blank EXCEPT !.op = "callback",
                                 !.name = "handle_oauth_callback",
                                 !.at = now,
                                 !.outcome = IF ex.error = "none"
                                             THEN "ok" ELSE ex.error,
                                 !.sent = ex.sent,
                                 !.saved = (ex.error = "none"),
                                 !.exchangeError = ex.error,
                                 !.accepts = (resp.kind = "ok"),
                                 !.token = ex.token,
                                 !.follows = Summary(last)]
        /\ UNCHANGED <<now, advances, config, file, methodCache, selfCache,
                       backendVer, fetches, stale,
                   pending>>

\* TickTickAuth.handle_oauth_callback(code)
HandleOAuthCallback(c, code, resp) ==
    \E ex \in {FetchToken(ostate[c], code, resp)} :
        /\ held' = [held EXCEPT ![c] = IF ex.error = "none"
                                       THEN ex.token ELSE held[c]]
        /\ file' = IF ex.error = "none"
                   THEN SaveToken(ex.token, file) ELSE file
        /\ ostate' = [ostate EXCEPT ![c] = ex.ostate]
        /\ issued' = IF ex.error = "none" THEN issued + 1 ELSE issued
        /\ last' = [Blank EXCEPT !.op = "callback",
                                 !.name = "handle_oauth_callback",
                                 !.at = now,
                                 !.outcome = IF ex.error = "none"
                                             THEN "ok" ELSE ex.error,
                                 !.sent = ex.sent,
                                 !.saved = (ex.error = "none"),
                                 !.exchangeError = ex.error,
                                 !.accepts = (resp.kind = "ok"),
                                 !.token = ex.token,
                                 !.follows = Summary(last)]
        /\ UNCHANGED <<now, advances, config, methodCache, selfCache,
                       backendVer, fetches, stale,
                   pending>>

HttpResponses == {"ok", "HTTPStatusError", "TimeoutException"}

\* The answers of the backend that matter to an operation of c: none when
\* get_token raises, so that no request is sent
HttpAnswers(c) ==
    IF \A r \in RefreshAnswers(c) : GetTokenCall(c, r).outcome # "ok"
    THEN {"unsent"} ELSE HttpResponses

\* The body of a read (get_tasks, get_projects, get_tags): _get_headers,
\* the GET request, raise_for_status, the parsed payload
ReadBody(op, form, tk, httpResp) ==
    IF tk.outcome # "ok" THEN [outcome |-> tk.outcome, value |-> <<>>]
    ELSE IF httpResp = "ok"
    THEN [outcome |-> "ok", value |-> <<op, ListId(form), backendVer>>]
    ELSE [outcome |-> httpResp, value |-> <<>>]

\* The steps of the body of a client operation, in order: _get_headers
\* awaits get_token, and the request is sent when that returned a token
BodyEvents(tk) ==
    <<"get_token">> \o (IF tk.outcome = "ok" THEN <<"request">> ELSE <<>>)

\* The client called on its own, by no protocol-level request
Direct == [method |-> "client", arg |-> ""]

\* str(e) of the exception a client call ended with: the ValueError of
\* get_token carries the authorization URL
ErrorText(obs) ==
    IF obs.outcome = "AuthRequired"
    THEN <<"No valid token found. Please authorize at: ">> \o obs.url
    ELSE <<obs.outcome>>

\* The text each tool of TaskTools puts before str(e)
ToolErrorPrefix(tool) ==
    CASE tool = "create_task"   -> "Error creating task: "
      [] tool = "update_task"   -> "Error updating task: "
      [] tool = "complete_task" -> "Error completing task: "
      [] tool = "delete_task"   -> "Error deleting task: "
      [] tool = "search_tasks"  -> "Error searching tasks: "
      [] OTHER                  -> "Error executing tool: "

\* TaskTools.get_tools: the names of the Tool objects, in the order of the
\* list
ToolCatalog ==
    <<"create_task", "update_task", "complete_task", "delete_task",
      "search_tasks", "get_tags", "create_tag", "update_tag", "delete_tag">>

\* What the handler of request req hands to the protocol caller when its
\* client call ended as obs tells
ProtocolReply(req, obs) ==
    LET ok == obs.outcome = "ok"
    IN  CASE req.method = "list_resources" ->
               \* TaskResources.list_resources: the error of get_projects
               \* is logged and the two fixed resources are returned
               [kind |-> "result", isError |-> FALSE,
                items |-> <<<<"ticktick://tasks/inbox">>,
                            <<"ticktick://tasks/all">>>>
                          \o (IF ok
                              THEN [i \in 1..Len(req.projects) |->
                                       <<"ticktick://tasks/project/",
                                         req.projects[i]>>]
                              ELSE <<>>),
                text |-> <<>>]
          [] req.method = "read_resource" ->
               IF ok
               THEN [kind |-> "result", isError |-> FALSE, items |-> <<>>,
                     text |-> <<"json", req.arg, obs.value>>]
               ELSE [kind |-> "error", isError |-> TRUE, items |-> <<>>,
                     text |-> <<"Error reading resource: ">>
                              \o ErrorText(obs)]
          [] req.method = "call_tool" ->
               IF ok
               THEN [kind |-> "result", isError |-> FALSE, items |-> <<>>,
                     text |-> <<"json", req.arg, obs.value>>]
               ELSE [kind |-> "result",
                     \* the except clause of the server's call_tool sets
                     \* no isError
                     isError |-> obs.outcome # "Unknown tool",
                     items |-> <<>>,
                     text |-> <<ToolErrorPrefix(req.arg)>>
                              \o ErrorText(obs)]
          [] req.method = "list_tools" ->
               [kind |-> "result", isError |-> FALSE, items |-> ToolCatalog,
                text |-> <<>>]
          [] OTHER -> NoReply

\* The observation of a client call made for request req
Answer(req, obs) ==
    IF req = Direct THEN obs
    ELSE [obs EXCEPT !.request_via = req.method, !.request_arg = req.arg,
                     !.backend = IF req.method = "list_resources"
                                 THEN req.projects ELSE NoProjects,
                     !.reply = ProtocolReply(req, obs)]

\* The keys of the entries of cache op that are live at time t
LiveKeys(op, t) ==
    {<<op, methodCache[op][i].key>> :
        i \in {j \in 1..Len(methodCache[op]) : Live(methodCache[op][j], t)}}

\* A call of a read decorated with @cached(cache=TTLCache(...)), awaited by
\* its caller.  The wrapper looks the key up and returns the cached
\* coroutine object on a hit; on a miss it calls the function, caches the
\* coroutine object it gets, and returns it.  Awaiting a coroutine that has
\* already run to its end raises RuntimeError.
\* req is the protocol-level request the call serves, Direct when the
\* client is called on its own.  events lists, in their order, the steps
\* the call went through.
ReadVia(req, c, op, form, tokResp, httpResp, maxFetches) ==
    \E tk \in {GetTokenCall(c, tokResp)},
       e \in {EntryOf(methodCache[op], HashKey(c, form))} :
    LET k == HashKey(c, form)
        q == methodCache[op]
        hit == e # NoEntry /\ Live(e, now)
        res == ReadBody(op, form, tk, httpResp)
        obs == [Blank EXCEPT !.op = "read", !.name = op, !.key = k,
                             !.request = <<op, ListId(form)>>,
                             !.at = now, !.entryBefore = e,
                             !.wasStale = (<<op, k>> \in stale)]
    IN  IF hit
        THEN /\ methodCache' = [methodCache EXCEPT ![op] = CacheTouch(q, k)]
             /\ last' = Answer(req, [obs EXCEPT !.hit = TRUE,
                                                !.events = <<"cache_lookup">>,
                                                !.outcome = "RuntimeError"])
             /\ UNCHANGED <<now, advances, config, file, held, ostate,
                            issued, selfCache, backendVer, fetches, stale,
                   pending>>
        ELSE /\ fetches < maxFetches
             /\ fetches' = fetches + 1
             /\ methodCache' =
                    [methodCache EXCEPT ![op] =
                        CacheSet(q, k,
                                 [state |-> "finished", at |-> now,
                                  first |-> res.value],
                                 now, CACHE_MAXSIZE)]
             /\ ApplyToken(c, tk)
             /\ stale' = stale \ {<<op, k>>}
             /\ last' = Answer(req, [obs EXCEPT !.computed = TRUE,
                                                !.events =
                                                    <<"cache_lookup",
                                                      "cache_insert">>
                                                    \o BodyEvents(tk),
                                                !.outcome = res.outcome,
                                                !.value = res.value,
                                                !.url = tk.url,
                                                !.sent = tk.sent])
             /\ UNCHANGED <<now, advances, config, selfCache, backendVer,
                   pending>>

ReadCall(c, op, form, tokResp, httpResp, maxFetches) ==
    ReadVia(Direct, c, op, form, tokResp, httpResp, maxFetches)

Read(c, op, form, tokResp, httpResp) ==
    ReadCall(c, op, form, tokResp, httpResp, MaxFetches)

\* A write (create/update/delete/complete task, create/update/delete tag):
\* _get_headers, the request, raise_for_status, self._cache.clear().
\* history tells whether the history variable stale is kept up.
WriteVia(req, c, op, tokResp, httpResp, history) ==
    \E tk \in {GetTokenCall(c, tokResp)} :
    LET ok == tk.outcome = "ok" /\ httpResp = "ok"
    IN  /\ ok => backendVer < MaxWrites
        /\ ApplyToken(c, tk)
        /\ backendVer' = IF ok THEN backendVer + 1 ELSE backendVer
        /\ selfCache' = IF ok THEN [selfCache EXCEPT ![c] = <<>>]
                        ELSE selfCache
        /\ stale' = IF ok /\ history
                    THEN UNION {LiveKeys(r, now) : r \in ReadOps}
                    ELSE stale
        /\ last' = Answer(req,
                          [Blank EXCEPT !.op = "write", !.name = "write",
                                        !.key = <<c>>,
                                        !.at = now,
                                        !.events =
                                            BodyEvents(tk)
                                            \o (IF ok THEN <<"cache_clear">>
                                                ELSE <<>>),
                                        !.outcome = IF tk.outcome # "ok"
                                                    THEN tk.outcome
                                                    ELSE httpResp,
                                        !.url = tk.url,
                                        !.sent = tk.sent])
        /\ UNCHANGED <<now, advances, config, methodCache, fetches,
                   pending>>

\* A write as it would be if it emptied the caches of the reads whatever
\* its request came to
WriteClearingAlways(c, op, tokResp, httpResp, history) ==
    \E tk \in {GetTokenCall(c, tokResp)} :
        /\ ApplyToken(c, tk)
        /\ methodCache' = [r \in ReadOps |-> <<>>]
        /\ last' = [Blank EXCEPT !.op = "write", !.name = "write",
                                 !.at = now,
                                 !.outcome = IF tk.outcome # "ok"
                                             THEN tk.outcome ELSE httpResp]
        /\ UNCHANGED <<now, advances, config, selfCache, backendVer,
                       fetches, stale, pending>>

WriteCall(c, op, tokResp, httpResp, history) ==
    WriteVia(Direct, c, op, tokResp, httpResp, history)

\* A read that is not cached (get_task, search_tasks): _get_headers, the
\* GET request, raise_for_status, the parsed payload
PlainVia(req, c, op, tokResp, httpResp) ==
    \E tk \in {GetTokenCall(c, tokResp)} :
    LET ok == tk.outcome = "ok" /\ httpResp = "ok"
    IN  /\ ApplyToken(c, tk)
        /\ last' = Answer(req,
                          [Blank EXCEPT !.op = "plain", !.name = op,
                                        !.at = now,
                                        !.events = BodyEvents(tk),
                                        !.outcome = IF tk.outcome # "ok"
                                                    THEN tk.outcome
                                                    ELSE httpResp,
                                        !.value = IF ok
                                                  THEN <<op, backendVer>>
                                                  ELSE <<>>,
                                        !.url = tk.url,
                                        !.sent = tk.sent])
        /\ UNCHANGED <<now, advances, config, methodCache, selfCache,
                       backendVer, fetches, stale, pending>>

Write(c, op, tokResp, httpResp) == WriteCall(c, op, tokResp, httpResp, TRUE)

Next ==
    \/ \E d \in {1, Ticks(CACHE_TTL) - 1} : Advance(d)
    \/ \E c \in Clients, op \in ReadOps :
           \E form \in CallForms(op), r \in RefreshAnswers(c),
              h \in HttpAnswers(c) : Read(c, op, form, r, h)
    \/ \E c \in Clients, op \in WriteOps :
           \E r \in RefreshAnswers(c), h \in HttpAnswers(c) :
               Write(c, op, r, h)

Spec == Init /\ [][Next]_vars

\* The credential manager on its own: get_token and handle_oauth_callback
AuthNext ==
    \/ \E d \in {1, Ticks(CACHE_TTL) - 1} : Advance(d)
    \/ \E c \in Clients : \E r \in RefreshAnswers(c) : GetToken(c, r)
    \/ \E c \in Clients, r \in EndpointAnswers :
           HandleOAuthCallback(c, "code", r)

AuthSpec == AuthInit /\ [][AuthNext]_vars


-----------------------------------------------------------------------------
(* Token storage on its own: save_token and load_token applied to any     *)
(* held token.                                                             *)

RoundTripRange == 3

\* Every token shape: lifetimes from zero up, with and without
\* refresh_token and scope, issued on and between whole seconds
TokenSpace ==
    {[kind |-> "token", access_token |-> 0, token_type |-> "bearer",
      expires_in |-> e, refresh_token |-> r, scope |-> sc,
      created_at |-> t] :
        e \in {0, 1, 300}, r \in {NoneStr, "rt"},
        sc \in {NoneStr, DefaultScope},
        t \in (ClassDefTime - RoundTripRange)..(ClassDefTime + RoundTripRange)}

StorageInit ==
    /\ now = ClassDefTime
    /\ advances = 0
    /\ config \in {c \in Configs : ~Truthy(c.redirect_uri)}
    /\ file \in {AbsentFile, GarbageFile}
    /\ held \in [Clients -> TokenSpace]
    /\ ostate = [c \in Clients |-> "UNOPENED"]
    /\ issued = 0
    /\ methodCache = [op \in ReadOps |-> <<>>]
    /\ selfCache = [c \in Clients |-> <<>>]
    /\ backendVer = 0
    /\ fetches = 0
    /\ stale = {}
    /\ last = Blank
    /\ pending = [t \in Tasks |-> Idle]

\* OAuth2Handler.save_token(path)
SaveTokenOp(c) ==
    /\ file' = SaveToken(held[c], file)
    /\ last' = [Blank EXCEPT !.op = "save", !.name = "save_token",
                             !.at = now, !.saved = (held[c] # NoToken),
                             !.token = held[c]]
    /\ UNCHANGED <<now, advances, config, held, ostate, issued, methodCache,
                   selfCache, backendVer, fetches, stale,
                   pending>>

\* OAuth2Handler.load_token(path); the observation keeps the token that the
\* save_token call just before it wrote
LoadTokenOp(c) ==
    \E ld \in {LoadToken(file)} :
        /\ held' = [held EXCEPT ![c] = IF ld.token # NoToken
                                       THEN ld.token ELSE held[c]]
        /\ last' = [Blank EXCEPT !.op = "load", !.name = "load_token",
                                 !.at = now, !.loadError = ld.error,
                                 !.loaded = ld.token,
                                 !.token = IF last.op = "save"
                                           THEN last.token ELSE NoToken]
        /\ UNCHANGED <<now, advances, config, file, ostate, issued,
                       methodCache, selfCache, backendVer, fetches, stale,
                   pending>>

StorageNext ==
    \/ \E c \in Clients : SaveTokenOp(c)
    \/ \E c \in Clients : LoadTokenOp(c)

StorageSpec == StorageInit /\ [][StorageNext]_vars

-----------------------------------------------------------------------------
(* The cache on its own: a client whose stored token stays valid, reading  *)
(* several task lists, writing, and letting time pass.                     *)

MaxCacheFetches == 3

\* get_tasks(), get_tasks("L1"), get_tasks("L2"); get_projects(); get_tags()
ListForms(op) ==
    IF op = "get_tasks"
    THEN {NoArgs, [args |-> <<"L1">>, kwargs |-> <<>>],
          [args |-> <<"L2">>, kwargs |-> <<>>]}
    ELSE {NoArgs}

CacheInit ==
    InitWith({f \in ClientFiles : f # AbsentFile},
             {c \in Configs : ~Truthy(c.redirect_uri)})

\* The backend answers, or fails to
CacheAnswers == {"ok", "HTTPStatusError"}

CacheRead(c, op, form, httpResp) ==
    ReadCall(c, op, form, [kind |-> "unasked"], httpResp, MaxCacheFetches)

CacheWrite(c, op, httpResp) ==
    WriteCall(c, op, [kind |-> "unasked"], httpResp, FALSE)

CacheNext ==
    \/ \E d \in {1, Ticks(CACHE_TTL) - 1} : Advance(d)
    \/ \E c \in Clients, op \in ReadOps :
           \E form \in ListForms(op), h \in CacheAnswers :
               CacheRead(c, op, form, h)
    \/ \E c \in Clients, op \in WriteOps, h \in CacheAnswers :
           CacheWrite(c, op, h)

CacheSpec == CacheInit /\ [][CacheNext]_vars

-----------------------------------------------------------------------------
(* The cache keys on their own: get_tasks called in every way its          *)
(* signature allows.                                                       *)

MaxKeyFetches == 2

\* get_tasks(), get_tasks(None), get_tasks(list_id=None), get_tasks("L1"),
\* get_tasks(list_id="L1"), get_tasks("L2"); get_projects(); get_tags()
AllCallForms(op) ==
    IF op = "get_tasks"
    THEN {NoArgs,
          [args |-> <<NoneStr>>, kwargs |-> <<>>],
          [args |-> <<>>, kwargs |-> <<"list_id", NoneStr>>],
          [args |-> <<"L1">>, kwargs |-> <<>>],
          [args |-> <<>>, kwargs |-> <<"list_id", "L1">>],
          [args |-> <<"L2">>, kwargs |-> <<>>]}
    ELSE {NoArgs}

KeyRead(c, op, form, httpResp) ==
    ReadCall(c, op, form, [kind |-> "unasked"], httpResp, MaxKeyFetches)

KeyNext ==
    \E c \in Clients, op \in ReadOps :
        \E form \in AllCallForms(op), h \in CacheAnswers :
            KeyRead(c, op, form, h)

KeySpec == CacheInit /\ [][KeyNext]_vars

-----------------------------------------------------------------------------
(* Concurrent reads and writes of one client.  A call runs without         *)
(* interruption up to its network request, is suspended there, and is      *)
(* resumed by the answer; calls of other tasks run in between.  The stored *)
(* token stays valid, so get_token never suspends.                         *)

\* A read starts: the @cached wrapper looks the key up.  On a hit the caller
\* awaits the cached coroutine object, which is running or has finished:
\* RuntimeError either way.  On a miss the wrapper caches the new coroutine
\* object, the caller awaits it, and its body runs up to the GET request.
ReadBegin(t, c, op, form) ==
    \E tk \in {GetTokenCall(c, [kind |-> "unasked"])},
       e \in {EntryOf(methodCache[op], HashKey(c, form))} :
    LET k == HashKey(c, form)
        q == methodCache[op]
        hit == e # NoEntry /\ Live(e, now)
        obs == [Blank EXCEPT !.op = "read", !.name = op, !.key = k,
                             !.request = <<op, ListId(form)>>,
                             !.at = now, !.entryBefore = e,
                             !.wasStale = (<<op, k>> \in stale),
                             !.startVer = backendVer]
    IN  /\ pending[t] = Idle
        /\ IF hit
           THEN /\ methodCache' = [methodCache EXCEPT ![op] = CacheTouch(q, k)]
                /\ last' = [obs EXCEPT !.hit = TRUE,
                                       !.outcome = "RuntimeError"]
                /\ UNCHANGED <<file, held, ostate, issued, fetches, stale,
                               pending>>
           ELSE /\ fetches < MaxFetches
                /\ fetches' = fetches + 1
                /\ methodCache' =
                       [methodCache EXCEPT ![op] =
                           CacheSet(q, k,
                                    [state |-> IF tk.outcome = "ok"
                                               THEN "running" ELSE "finished",
                                     at |-> now, first |-> <<>>, task |-> t],
                                    now, CACHE_MAXSIZE)]
                /\ ApplyToken(c, tk)
                /\ stale' = stale \ {<<op, k>>}
                /\ IF tk.outcome = "ok"
                   THEN /\ pending' = [pending EXCEPT ![t] =
                                          [pc |-> "fetching", form |-> form,
                                           obs |-> obs]]
                        /\ last' = last
                   ELSE /\ last' = [obs EXCEPT !.computed = TRUE,
                                               !.outcome = tk.outcome]
                        /\ pending' = pending
        /\ UNCHANGED <<now, advances, config, selfCache, backendVer>>

\* The coroutine of task t ends with value v: the coroutine object, cached
\* or not, is finished
CoroEnd(q, t, v) ==
    [i \in 1..Len(q) |->
        IF q[i].coro.state = "running" /\ q[i].coro.task = t
        THEN [q[i] EXCEPT !.coro.state = "finished", !.coro.first = v]
        ELSE q[i]]

\* The answer to the GET request of a read arrives: raise_for_status, the
\* parsed payload, return
ReadEnd(t, httpResp) ==
    /\ pending[t].pc = "fetching"
    /\ LET obs == pending[t].obs
           res == ReadBody(obs.name, pending[t].form, [outcome |-> "ok"],
                           httpResp)
       IN  /\ methodCache' = [methodCache EXCEPT ![obs.name] =
                                  CoroEnd(methodCache[obs.name], t, res.value)]
           /\ last' = [obs EXCEPT !.computed = TRUE,
                                  !.outcome = res.outcome,
                                  !.value = res.value, !.sent = TRUE]
    /\ pending' = [pending EXCEPT ![t] = Idle]
    /\ UNCHANGED <<now, advances, config, file, held, ostate, issued,
                   selfCache, backendVer, fetches, stale>>

\* A write starts: _get_headers, then the request is sent
WriteBegin(t, c, op) ==
    \E tk \in {GetTokenCall(c, [kind |-> "unasked"])} :
        /\ pending[t] = Idle
        /\ ApplyToken(c, tk)
        /\ IF tk.outcome = "ok"
           THEN /\ pending' = [pending EXCEPT ![t] =
                                  [pc |-> "writing", client |-> c]]
                /\ last' = last
           ELSE /\ last' = [Blank EXCEPT !.op = "write", !.name = "write",
                                         !.at = now, !.outcome = tk.outcome]
                /\ pending' = pending
        /\ UNCHANGED <<now, advances, config, methodCache, selfCache,
                       backendVer, fetches, stale>>

\* The answer to the request of a write arrives: raise_for_status,
\* self._cache.clear(), return
WriteEnd(t, httpResp) ==
    LET ok == httpResp = "ok"
        c == pending[t].client
    IN  /\ pending[t].pc = "writing"
        /\ ok => backendVer < MaxWrites
        /\ backendVer' = IF ok THEN backendVer + 1 ELSE backendVer
        /\ selfCache' = IF ok THEN [selfCache EXCEPT ![c] = <<>>]
                        ELSE selfCache
        /\ stale' = IF ok THEN UNION {LiveKeys(r, now) : r \in ReadOps}
                    ELSE stale
        /\ last' = [Blank EXCEPT !.op = "write", !.name = "write",
                                 !.at = now, !.outcome = httpResp]
        /\ pending' = [pending EXCEPT ![t] = Idle]
        /\ UNCHANGED <<now, advances, config, file, held, ostate, issued,
                       methodCache, fetches>>

ConcCacheNext ==
    \/ \E t \in Tasks, c \in Clients, op \in ReadOps :
           ReadBegin(t, c, op, NoArgs)
    \/ \E t \in Tasks, h \in CacheAnswers : ReadEnd(t, h)
    \/ \E t \in Tasks, c \in Clients, op \in WriteOps : WriteBegin(t, c, op)
    \/ \E t \in Tasks, h \in CacheAnswers : WriteEnd(t, h)

ConcCacheSpec == CacheInit /\ [][ConcCacheNext]_vars

-----------------------------------------------------------------------------
(* Concurrent get_token calls on one credential manager.  get_token runs   *)
(* without interruption up to the POST of refresh_token, is suspended      *)
(* until the answer, and is suspended once more while the async with block *)
(* closes the HTTP client, before save_token runs.                         *)

\* The observation of a get_token call
GetTokenObs(outcome) ==
    [Blank EXCEPT !.op = "get_token", !.name = "get_token", !.at = now,
                  !.outcome = outcome, !.storageRead = TRUE]

\* get_token starts: load_token, the expiry test, and, when a refresh is
\* due and the HTTP client was never opened, the POST of refresh_token.
\* Every other path runs to its end without an await that suspends.
TokenBegin(t, c) ==
    /\ pending[t] = Idle
    /\ IF WouldRefresh(c) /\ ostate[c] = "UNOPENED"
       THEN /\ held' = [held EXCEPT ![c] = LoadToken(file).token]
            /\ ostate' = [ostate EXCEPT ![c] = "OPENED"]
            /\ pending' = [pending EXCEPT ![t] =
                              [pc |-> "posting", client |-> c,
                               loaded |-> LoadToken(file).token]]
            /\ UNCHANGED <<file, issued, last>>
       ELSE \E tk \in {GetTokenCall(c, [kind |-> "unasked"])} :
                /\ ApplyToken(c, tk)
                /\ last' = TokenObs(GetTokenObs(tk.outcome), tk,
                                    [kind |-> "unasked"])
                /\ pending' = pending
    /\ UNCHANGED <<now, advances, config, methodCache, selfCache, backendVer,
                   fetches, stale>>

\* The answer to the POST arrives.  A failure leaves the async with block
\* and is caught by get_token, which raises the ValueError with the
\* authorization URL; a token is assigned to self._token, and the block is
\* left through AsyncClient.__aexit__, which closes the connection
TokenAnswer(t, resp) ==
    LET c == pending[t].client
        ex == Exchange("UNOPENED", resp)
    IN  /\ pending[t].pc = "posting"
        /\ ostate' = [ostate EXCEPT ![c] = ex.ostate]
        /\ IF ex.error = "none"
           THEN /\ held' = [held EXCEPT ![c] = ex.token]
                /\ issued' = issued + 1
                /\ pending' = [pending EXCEPT ![t] =
                                  [pc |-> "closing", client |-> c,
                                   loaded |-> pending[t].loaded,
                                   fresh |-> ex.token]]
                /\ last' = last
           ELSE /\ pending' = [pending EXCEPT ![t] = Idle]
                /\ last' = [GetTokenObs("AuthRequired") EXCEPT
                               !.url = AuthorizationUrl, !.sent = TRUE,
                               !.exchangeError = ex.error,
                               !.loaded = pending[t].loaded,
                               !.token = pending[t].loaded]
                /\ UNCHANGED <<held, issued>>
        /\ UNCHANGED <<now, advances, config, file, methodCache, selfCache,
                       backendVer, fetches, stale>>

\* The client is closed: refresh_token returns, save_token writes
\* self._token as it is now, and get_token returns the access_token of the
\* token refresh_token gave it
TokenEnd(t) ==
    LET c == pending[t].client
    IN  /\ pending[t].pc = "closing"
        /\ file' = SaveToken(held[c], file)
        /\ last' = [GetTokenObs("ok") EXCEPT
                       !.access = pending[t].fresh.access_token,
                       !.sent = TRUE, !.saved = TRUE, !.accepts = TRUE,
                       !.loaded = pending[t].loaded,
                       !.token = pending[t].fresh]
        /\ pending' = [pending EXCEPT ![t] = Idle]
        /\ UNCHANGED <<now, advances, config, held, ostate, issued,
                       methodCache, selfCache, backendVer, fetches, stale>>

ConcAuthNext ==
    \/ \E d \in {1, Ticks(CACHE_TTL) - 1} : Advance(d)
    \/ \E t \in Tasks, c \in Clients : TokenBegin(t, c)
    \/ \E t \in Tasks, r \in EndpointAnswers : TokenAnswer(t, r)
    \/ \E t \in Tasks : TokenEnd(t)

ConcAuthSpec == AuthInit /\ [][ConcAuthNext]_vars

-----------------------------------------------------------------------------
(* The MCP server: the handlers of list_resources, read_resource and       *)
(* call_tool, each run to its end, over the client and its cache.          *)

ResourceUris ==
    {"ticktick://tasks/all", "ticktick://tasks/inbox",
     "ticktick://tasks/project/L1", "ticktick://tasks/search/q",
     "ticktick://other"}

\* TaskTools.get_tools: the tools the server advertises
ToolNames ==
    {"create_task", "update_task", "complete_task", "delete_task",
     "search_tasks", "get_tags", "create_tag", "update_tag", "delete_tag"}

\* The names call_tool of the server dispatches
DispatchedTools ==
    {"create_task", "update_task", "complete_task", "delete_task",
     "search_tasks"}

\* The names a protocol caller may ask call_tool for: the advertised ones
\* and one that is no tool at all
RequestedTools == ToolNames \cup {"unknown_tool"}

\* Arguments the input schema of a tool accepts, and arguments it rejects
ToolArguments == {"valid", "invalid"}

\* A request that ends before any call of the client
NoCall(req, outcome) ==
    /\ last' = Answer(req, [Blank EXCEPT !.op = "request", !.at = now,
                                         !.outcome = outcome])
    /\ UNCHANGED <<now, advances, config, file, held, ostate, issued,
                   methodCache, selfCache, backendVer, fetches, stale,
                   pending>>

\* list_tools of the server: TaskTools.get_tools
ListTools ==
    NoCall([method |-> "list_tools", arg |-> ""], "ok")

\* list_resources of the server over TaskResources.list_resources
\* The ids of the projects the backend may hold
ProjectLists == {<<>>, <<"1">>, <<"1", "2">>}

\* projects is the list the backend holds: what a 2xx answer to the GET of
\* get_projects carries
ListResources(c, tokResp, httpResp, projects) ==
    ReadVia([method |-> "list_resources", arg |-> "",
             projects |-> IF httpResp = "ok" THEN projects ELSE NoProjects],
            c, "get_projects", NoArgs, tokResp, httpResp, MaxFetches)

\* read_resource of the server over TaskResources.read_resource
ReadResource(c, uri, tokResp, httpResp) ==
    LET req == [method |-> "read_resource", arg |-> uri]
    IN  CASE uri \in {"ticktick://tasks/all", "ticktick://tasks/inbox"} ->
               ReadVia(req, c, "get_tasks", NoArgs, tokResp, httpResp,
                       MaxFetches)
          [] uri = "ticktick://tasks/project/L1" ->
               ReadVia(req, c, "get_tasks",
                       [args |-> <<>>, kwargs |-> <<"list_id", "L1">>],
                       tokResp, httpResp, MaxFetches)
          [] uri = "ticktick://tasks/search/q" ->
               PlainVia(req, c, "search_tasks", tokResp, httpResp)
          [] OTHER -> NoCall(req, "Unknown resource")

\* call_tool of the server over TaskTools.  update_task reads the task with
\* get_task (answered getResp) before it writes it; the second get_token
\* finds the token the first one left and gives the same.
CallTool(c, name, arguments, tokResp, getResp, httpResp) ==
    LET req == [method |-> "call_tool", arg |-> name]
    IN  IF name \notin DispatchedTools THEN NoCall(req, "Unknown tool")
        ELSE IF arguments = "invalid" THEN NoCall(req, "ValidationError")
        ELSE CASE name = "search_tasks" ->
                    PlainVia(req, c, "search_tasks", tokResp, httpResp)
               [] name = "update_task" /\ getResp # "ok" ->
                    PlainVia(req, c, "get_task", tokResp, getResp)
               [] OTHER ->
                    WriteVia(req, c, name, tokResp, httpResp, FALSE)

\* The answers to the get_task request of a tool: only update_task sends
\* one
GetAnswers(c, name) ==
    IF name = "update_task" THEN HttpAnswers(c) ELSE {"ok"}

ServerNext ==
    \/ Advance(Ticks(CACHE_TTL))
    \/ ListTools
    \/ \E c \in Clients :
           \E r \in RefreshAnswers(c), h \in HttpAnswers(c),
              p \in ProjectLists : ListResources(c, r, h, p)
    \/ \E c \in Clients, uri \in ResourceUris :
           \E r \in RefreshAnswers(c), h \in HttpAnswers(c) :
               ReadResource(c, uri, r, h)
    \/ \E c \in Clients, name \in RequestedTools, a \in ToolArguments :
           \E r \in RefreshAnswers(c), g \in GetAnswers(c, name),
              h \in HttpAnswers(c) : CallTool(c, name, a, r, g, h)

ServerSpec == Init /\ [][ServerNext]_vars

-----------------------------------------------------------------------------
(* Two TickTickClient instances in one process.  The TTLCache objects of    *)
(* @cached are created once, when the class body runs, and serve every     *)
(* instance; each instance has its own self._cache and its own TickTickAuth *)
(* over the same token file.                                               *)

Instances == {"c1", "c2"}

MaxSharedFetches == 3

SharedInit ==
    InitFor(Instances, {f \in ClientFiles : f # AbsentFile},
            {c \in Configs : ~Truthy(c.redirect_uri)})

SharedRead(c, op, form, httpResp) ==
    ReadCall(c, op, form, [kind |-> "unasked"], httpResp, MaxSharedFetches)

SharedWrite(c, op, httpResp) ==
    WriteCall(c, op, [kind |-> "unasked"], httpResp, FALSE)

SharedNext ==
    \/ \E c \in Instances, op \in ReadOps :
           \E form \in CallForms(op), h \in CacheAnswers :
               SharedRead(c, op, form, h)
    \/ \E c \in Instances, op \in WriteOps, h \in CacheAnswers :
           SharedWrite(c, op, h)

SharedSpec == SharedInit /\ [][SharedNext]_vars

-----------------------------------------------------------------------------
(* OAuth2Token.is_expired on its own: the property read at any time, on    *)
(* any held token.                                                         *)

\* token.is_expired, read by c on its held token
IsExpiredOp(c) ==
    /\ last' = [Blank EXCEPT !.op = "is_expired", !.name = "is_expired",
                             !.at = now, !.token = held[c],
                             !.value = <<IsExpired(held[c], now)>>]
    /\ UNCHANGED <<now, advances, config, file, held, ostate, issued,
                   methodCache, selfCache, backendVer, fetches, stale,
                   pending>>

ExpiryNext ==
    \/ \E d \in {1, Ticks(CACHE_TTL) - 1} : Advance(d)
    \/ \E c \in Clients : IsExpiredOp(c)

ExpirySpec == StorageInit /\ [][ExpiryNext]_vars

-----------------------------------------------------------------------------
(* Claims *)

TTL == Ticks(CACHE_TTL)

\* C1 (Cache hit; as claimed).  When a read that returned a value is
\* followed, with no operation in between and less than CACHE_TTL seconds
\* later, by a call of the same read with the same parameters, the second
\* call returns the same value and its body does not run.
C1_CacheHit ==
    [][(/\ last.op = "read" /\ last.outcome = "ok"
        /\ now' = now
        /\ last'.op = "read" /\ last'.name = last.name
        /\ last'.key = last.key
        /\ last'.at < last.at + TTL)
       => (/\ last'.outcome = "ok"
           /\ last'.value = last.value
           /\ ~last'.computed)]_vars

\* C2 (Invalidation on write; as claimed).  The first read of a key that was
\* cached when a write succeeded runs the body of the read again: it is not
\* served from the cache.
C2_InvalidationOnWrite ==
    (last.op = "read" /\ last.wasStale) => (last.computed /\ ~last.hit)

\* C3 (TTL expiry).  A read is served from the cache only while less than
\* CACHE_TTL seconds have passed since the entry was inserted; a call made
\* CACHE_TTL seconds or more after the insertion runs the body again and is
\* not given the expired entry.
C3_TtlExpiry ==
    last.op = "read" =>
        /\ last.hit =>
               /\ last.entryBefore # NoEntry
               /\ last.at < last.entryBefore.coro.at + TTL
        /\ (/\ last.entryBefore # NoEntry
            /\ last.at >= last.entryBefore.coro.at + TTL)
           => (/\ last.computed /\ ~last.hit
               /\ EntryOf(methodCache[last.name], last.key).coro.at = last.at)

\* A read made exactly CACHE_TTL seconds after the insertion ran the body
\* again and got a value
C3_Witness ==
    /\ last.op = "read" /\ last.computed /\ last.outcome = "ok"
    /\ last.entryBefore # NoEntry
    /\ last.at = last.entryBefore.coro.at + TTL

\* C4 (Valid-token guarantee; as claimed).  The token whose access_token
\* get_token returns is not expired at the moment of the return.
C4_ValidToken ==
    (last.op = "get_token" /\ last.outcome = "ok")
        => ~IsExpired(last.token, last.at)

\* C5 (Refresh on expiry; as claimed).  When the loaded token is expired, has
\* a refresh_token and the endpoint accepts the refresh, get_token performs
\* the exchange and returns, and the held token, the stored token and the
\* returned token are the new token.
C5_RefreshOnExpiry ==
    \A c \in Clients :
        (/\ last.op = "get_token"
         /\ last.loaded # NoToken
         /\ IsExpired(last.loaded, last.at)
         /\ Truthy(last.loaded.refresh_token)
         /\ last.accepts)
        => (/\ last.outcome = "ok"
            /\ last.sent
            /\ last.token # last.loaded
            /\ held[c] = last.token
            /\ LoadToken(file).token = last.token
            /\ last.access = last.token.access_token)

\* C6 (Authentication required; as claimed).  get_token ends in the
\* authentication-required outcome, with the authorization URL, when there
\* is no token in memory and none in storage, when the token is expired and
\* has no refresh_token, and when the token is expired and the refresh fails.
C6_AuthenticationRequired ==
    \A c \in Clients :
        (/\ last.op = "get_token"
         /\ \/ last.loaded = NoToken /\ held[c] = NoToken
            \/ /\ last.loaded # NoToken
               /\ IsExpired(last.loaded, last.at)
               /\ \/ ~Truthy(last.loaded.refresh_token)
                  \/ last.exchangeError # "none")
        => (/\ last.outcome = "AuthRequired"
            /\ last.access = -1
            /\ last.url = AuthorizationUrl
            /\ Head(last.url) = AUTH_URL
            /\ (last.exchangeError = "none" => ~last.sent))

\* What a get_token call of c would give its caller, and leave behind, if
\* the endpoint answered r
TokenResult(c, r) ==
    LET tk == GetTokenCall(c, r)
    IN  <<tk.outcome, tk.access, tk.held, tk.file>>

\* C7 (Replace-on-success; as claimed).  A failed exchange leaves the held
\* token and the stored token as they were before the exchange, and a
\* get_token call made right after it behaves as it would have before it.
C7_ReplaceOnSuccess ==
    [][\A c \in Clients :
          (/\ now' = now /\ last' # last
           /\ last'.op \in {"get_token", "callback"}
           /\ last'.exchangeError # "none")
          => (/\ file' = file
              /\ held'[c] = IF last'.op = "get_token"
                            THEN last'.loaded ELSE held[c]
              /\ \A r \in EndpointAnswers :
                     TokenResult(c, r)' = TokenResult(c, r))]_vars

\* C8 (Code exchange).  After a successful handle_oauth_callback the held
\* token and the token read back from storage are the token it returned;
\* a get_token call that follows it before that token expires returns that
\* token's access_token and sends nothing to the endpoint.
C8_CodeExchange ==
    \A c \in Clients :
        /\ (last.op = "callback" /\ last.outcome = "ok")
           => (/\ last.token # NoToken
               /\ held[c] = last.token
               /\ LoadToken(file) = [error |-> "none", token |-> last.token])
        /\ (/\ last.op = "get_token"
            /\ last.follows # NoToken
            /\ ~IsExpired(last.follows, last.at))
           => (/\ last.outcome = "ok"
               /\ last.access = last.follows.access_token
               /\ ~last.sent)

\* get_token, called some time after a successful code exchange, returned
\* the exchanged token
C8_Witness ==
    /\ last.op = "get_token" /\ last.outcome = "ok"
    /\ last.follows # NoToken
    /\ last.at > ClassDefTime
    /\ last.access = last.follows.access_token

\* The times at which is_expired is compared
ProbeTimes ==
    (ClassDefTime - RoundTripRange)..(ClassDefTime + Ticks(300) + RoundTripRange)

\* C9 (Persistence round-trip).  load_token after save_token of token T
\* yields a token equal to T in every field, created_at included, hence
\* with the same is_expired at every time.
C9_RoundTrip ==
    (last.op = "load" /\ last.token # NoToken)
        => (/\ last.loadError = "none"
            /\ last.loaded = last.token
            /\ \A t \in ProbeTimes :
                   IsExpired(last.loaded, t) = IsExpired(last.token, t))

\* A token issued between two whole seconds, without refresh_token and
\* scope, was saved and loaded
C9_Witness ==
    /\ last.op = "load" /\ last.token # NoToken
    /\ last.loaded # NoToken
    /\ last.token.created_at % TicksPerSecond # 0
    /\ last.token.refresh_token = NoneStr
    /\ last.token.scope = NoneStr

\* Whether load_token finds no token in file content f
Unusable(f) ==
    \/ f.kind \in {"absent", "garbage"}
    \/ /\ f.kind = "json"
       /\ \/ "created_at" \notin DOMAIN f.obj
          \/ ~TokenValid(f.obj)
          \/ ~IsoOk(f.obj.created_at)

\* C10 (Tolerant load; as claimed).  When the token file is absent or cannot
\* be parsed into a token, load_token raises nothing and get_token ends in
\* the authentication-required outcome.
C10_TolerantLoad ==
    (last.op = "get_token" /\ Unusable(file))
        => (last.loadError = "none" /\ last.outcome = "AuthRequired")

\* C11 (Expiry predicate).  For a token issued at t0 with a lifetime of s
\* seconds, is_expired read at time now is false when now < t0 + s and true
\* when now >= t0 + s, whatever the other fields are; once it was true for a
\* token, it is true at every later reading.
C11_ExpiryPredicate ==
    [][last'.op = "is_expired" =>
          LET t0 == last'.token.created_at
              s == last'.token.expires_in
          IN  /\ last'.at < t0 + s * TicksPerSecond => last'.value = <<FALSE>>
              /\ last'.at >= t0 + s * TicksPerSecond => last'.value = <<TRUE>>
              /\ (/\ last.op = "is_expired" /\ last.token = last'.token
                  /\ last.value = <<TRUE>>) => last'.value = <<TRUE>>]_vars

\* is_expired was read as true at the very time a token with a lifetime of
\* more than zero seconds expires
C11_Witness ==
    /\ last.op = "is_expired" /\ last.value = <<TRUE>>
    /\ last.token.expires_in > 0
    /\ last.at = last.token.created_at + Ticks(last.token.expires_in)

\* C12 (No negative caching; as claimed).  A read whose body fails (no token,
\* a non-success answer, a timeout) gives the failure to its caller and
\* leaves no cache entry for its key, so that the next call with that key
\* runs the body again.
C12_NoNegativeCaching ==
    /\ (last.op = "read" /\ last.computed /\ last.outcome # "ok")
           => ~HasKey(methodCache[last.name], last.key)
    /\ (/\ last.op = "read" /\ last.entryBefore # NoEntry
        /\ last.entryBefore.coro.first = <<>>)
           => (last.computed /\ ~last.hit)

\* C13 (Cache key determinism; as claimed).  Two reads fall on the same
\* cache entry (same operation, same key) exactly when they are the same
\* operation with the same effective list id, however the arguments were
\* written.
C13_KeyDeterminism ==
    [][(last.op = "read" /\ last'.op = "read")
       => ((last'.request = last.request)
           <=> (last'.name = last.name /\ last'.key = last.key))]_vars

\* The keys of the entries of cache q, least recently used first
KeysOf(q) == [i \in 1..Len(q) |-> q[i].key]

\* Within each TTLCache the entries are kept in order of use: a hit makes
\* its key the most recently used and leaves the others in their order, and
\* so does an insert.  An insert of a new key into a TTLCache that holds
\* CACHE_MAXSIZE live keys evicts exactly its least recently used entry; an
\* insert into one with room evicts no live entry; the entries that stay
\* are unchanged and live.
LruWithinEachCache ==
    [][\A op \in ReadOps :
          (last'.op = "read" /\ last'.name = op /\ now' = now)
          => LET q == methodCache[op]
                 q2 == methodCache'[op]
                 k == last'.key
                 IsLive(e) == now < e.coro.at + Ticks(CACHE_TTL)
                 NotK(e) == e.key # k
                 others == SelectSeq(SelectSeq(q, IsLive), NotK)
             IN  /\ last'.hit
                       => KeysOf(q2) = KeysOf(SelectSeq(q, NotK)) \o <<k>>
                 /\ (last'.computed /\ Len(others) < CACHE_MAXSIZE)
                       => q2 = Append(others, q2[Len(q2)])
                 /\ (last'.computed /\ Len(others) >= CACHE_MAXSIZE)
                       => q2 = Append(Tail(others), q2[Len(q2)])
                 /\ last'.computed
                       => (/\ Len(q2) > 0 /\ Len(q2) <= CACHE_MAXSIZE
                           /\ q2[Len(q2)].key = k
                           /\ \A i \in 1..Len(q2) : IsLive(q2[i]))]_vars

\* The entries of the caches mc that are live at time t, each with the
\* operation it belongs to
LiveEntries(mc, t) ==
    UNION {{<<op, mc[op][i]>> :
               i \in {j \in 1..Len(mc[op]) :
                         t < mc[op][j].coro.at + Ticks(CACHE_TTL)}} :
           op \in ReadOps}

\* C14 (LRU eviction; as claimed).  When the cache of a client holds
\* CACHE_MAXSIZE live keys and a read inserts a new key, exactly one of the
\* entries is evicted, it is the least recently used of the reads of its
\* operation, and every other live entry stays.
C14_LruEviction ==
    [][(/\ last'.op = "read" /\ last'.computed /\ now' = now
        /\ last'.entryBefore = NoEntry
        /\ Cardinality(LiveEntries(methodCache, now)) = CACHE_MAXSIZE)
       => LET gone == LiveEntries(methodCache, now)
                          \ LiveEntries(methodCache', now)
          IN  /\ Cardinality(gone) = 1
              /\ \A g \in gone :
                     \A i \in 1..Len(methodCache[g[1]]) :
                         methodCache[g[1]][i] = g[2] => i = 1]_vars

\* C15 (Capacity invariant; as claimed).  In every reachable state the cache
\* of a client holds at most CACHE_MAXSIZE live entries, counted over
\* get_tasks, get_projects and get_tags together.
C15_Capacity ==
    \A c \in Clients :
        Cardinality({e \in LiveEntries(methodCache, now) : e[2].key[1] = c})
            <= CACHE_MAXSIZE

\* C16 (No I/O on the fast path; as claimed).  When a token is held and is
\* not expired, get_token returns its access_token and leaves it as it is,
\* without reading or writing the token storage and without a request to
\* the token endpoint.
C16_NoIoFastPath ==
    [][\A c \in Clients :
          (/\ held[c] # NoToken /\ ~IsExpired(held[c], now)
           /\ last'.op = "get_token" /\ now' = now)
          => (/\ last'.outcome = "ok"
              /\ last'.access = held[c].access_token
              /\ held'[c] = held[c] /\ file' = file
              /\ ~last'.sent /\ ~last'.saved
              /\ ~last'.storageRead)]_vars

\* C17 (Concurrent invalidation visibility; as claimed).  Under every
\* interleaving of the reads and writes of one client, a lookup that starts
\* after a write has completed is not served the entry that was cached
\* before that write, and a value it returns was fetched no earlier than
\* that write.
C17_ConcurrentInvalidation ==
    last.op = "read" =>
        /\ last.hit => ~last.wasStale
        /\ last.outcome = "ok" => last.value[3] >= last.startVer

\* The tokens a load of a token file or an answer of the token endpoint
\* produces
WholeTokens ==
    {LoadToken(f).token : f \in InitFiles}
    \cup {TokenFromDict(r.obj) :
             r \in {x \in UNION {Responses(i) : i \in 1..MaxIssued} :
                       x.kind = "ok" /\ TokenValid(x.obj)}}

\* C18 (Concurrent refresh safety; as claimed).  Under every interleaving
\* of concurrent get_token calls the held token is absent or one whole
\* token that a load or a refresh produced, the token file is only ever
\* overwritten with such a token, a caller is returned such a token, and a
\* get_token call whose refresh fails leaves the token that is held, and
\* the token file, as they are.
C18_ConcurrentRefresh ==
    [][\A c \in Clients :
          /\ held'[c] \in WholeTokens \cup {NoToken}
          /\ file' # file =>
                 \E w \in WholeTokens \ {NoToken} :
                     file' = SaveToken(w, AbsentFile)
          /\ (last' # last /\ last'.op = "get_token")
                 => last'.token \in WholeTokens \cup {NoToken}
          /\ (/\ last' # last /\ last'.op = "get_token"
              /\ last'.exchangeError # "none"
              /\ held[c] # NoToken)
             => (held'[c] = held[c] /\ file' = file)]_vars

\* text contains part, item for item
Contains(text, part) ==
    \E i \in 1..Len(text) :
        /\ i + Len(part) - 1 <= Len(text)
        /\ SubSeq(text, i, i + Len(part) - 1) = part

\* C19 (Authorization URL surfaced; as claimed).  When list_resources,
\* read_resource or call_tool cannot be served because get_token raised the
\* authentication-required error, what the protocol caller gets is an error
\* that contains the authorization URL, never a result that looks normal.
C19_AuthorizationUrlSurfaced ==
    (/\ last.request_via \in {"list_resources", "read_resource", "call_tool"}
     /\ last.outcome = "AuthRequired")
    => /\ Contains(last.reply.text, AuthorizationUrl)
       /\ last.reply.kind = "error" \/ last.reply.isError

\* The operation l tells of ran into a timeout of its network call
TimedOut(l) ==
    l.exchangeError = "TimeoutException" \/ l.outcome = "TimeoutException"

\* C20 (Timeout is a network error; as claimed).  An operation whose
\* request to the backend or to the token endpoint times out ends with the
\* timeout error itself, not with the authentication-required error or a
\* validation error, and leaves the token file and the cache as they were;
\* the held token is as it was or as load_token read it from the file.
C20_TimeoutIsNetworkError ==
    [][(last' # last /\ TimedOut(last'))
       => /\ last'.outcome = "TimeoutException"
          /\ file' = file
          /\ methodCache' = methodCache
          /\ \A c \in Clients :
                 held'[c] \in {held[c], LoadToken(file).token}]_vars

\* C21 (Unknown tool; as claimed).  A call_tool request for a name that is
\* none of the server's tools is answered with a protocol error, not with a
\* content result.
C21_UnknownTool ==
    (last.request_via = "call_tool" /\ last.request_arg \notin ToolNames)
    => last.reply.kind = "error"

\* C22 (Tool catalog; as claimed).  list_tools advertises exactly the five
\* tools create_task, update_task, complete_task, delete_task and
\* search_tasks, each once, and call_tool dispatches every tool that
\* get_tools advertises.
C22_ToolCatalog ==
    /\ last.request_via = "list_tools"
       => /\ Len(last.reply.items) = 5
          /\ {last.reply.items[i] : i \in 1..Len(last.reply.items)}
                = {"create_task", "update_task", "complete_task",
                   "delete_task", "search_tasks"}
          /\ {last.reply.items[i] : i \in 1..Len(last.reply.items)}
                = DispatchedTools
    /\ (last.request_via = "call_tool" /\ last.request_arg \in ToolNames)
       => last.outcome # "Unknown tool"

\* The resources list_resources is to return when the backend holds the
\* projects ps
Catalog(ps) ==
    {<<"ticktick://tasks/inbox">>, <<"ticktick://tasks/all">>}
    \cup {<<"ticktick://tasks/project/", ps[i]>> : i \in 1..Len(ps)}

\* C23 (Resource catalog; as claimed).  A list_resources request made with
\* a usable token while the backend answers the request for the projects
\* with n projects returns n + 2 resources, no two alike: the inbox, all
\* tasks, and one per project.
C23_ResourceCatalog ==
    (/\ last.request_via = "list_resources"
     /\ last.backend # NoProjects
     /\ last.outcome \in {"ok", "RuntimeError"})
    => /\ Len(last.reply.items) = Len(last.backend) + 2
       /\ {last.reply.items[i] : i \in 1..Len(last.reply.items)}
             = Catalog(last.backend)

\* The catalog of a list_resources request whose get_projects call was
\* answered by the backend
CatalogOnMiss ==
    (last.request_via = "list_resources" /\ last.outcome = "ok")
    => /\ Len(last.reply.items) = Len(last.backend) + 2
       /\ {last.reply.items[i] : i \in 1..Len(last.reply.items)}
             = Catalog(last.backend)

\* C24 (Issue time; as claimed).  The token a successful code exchange or
\* refresh installs has created_at equal to the time of the exchange, so
\* with a lifetime above zero it is not expired when it is issued.
C24_IssueTime ==
    [][\A c \in Clients :
          (issued' = issued + 1 /\ held'[c] # NoToken)
          => /\ held'[c].created_at = now
             /\ held'[c].expires_in > 0 => ~IsExpired(held'[c], now)]_vars

\* The place of the held token of c in Absent / Valid / Expired, at time t
HeldState(h, t) ==
    IF h = NoToken THEN "Absent"
    ELSE IF IsExpired(h, t) THEN "Expired" ELSE "Valid"

\* C25 (Held-token state machine; as claimed).  A valid held token expires
\* only as time passes; an expired one becomes valid only by a refresh or a
\* code exchange that succeeds; a refresh that succeeds ends in Valid and
\* one that fails ends with no held token; with no held token and none in
\* storage, a valid token comes only from a successful code exchange.
C25_HeldTokenStateMachine ==
    [][\A c \in Clients :
          LET before == HeldState(held[c], now)
              after == HeldState(held'[c], now')
              exchanged == issued' = issued + 1
              refreshFailed == /\ last' # last /\ last'.op = "get_token"
                               /\ last'.exchangeError # "none"
          IN  /\ (before = "Valid" /\ after = "Expired") => now' > now
              /\ (before = "Expired" /\ after = "Valid") => exchanged
              /\ (exchanged /\ last'.op = "get_token") => after = "Valid"
              /\ refreshFailed => after = "Absent"
              /\ (/\ before = "Absent" /\ after = "Valid"
                  /\ LoadToken(file).token = NoToken)
                 => (exchanged /\ last'.op = "callback")]_vars

\* Event a occurs in ev, and before every occurrence of b
Precedes(ev, a, b) ==
    \A i \in 1..Len(ev) :
        ev[i] = b => \E j \in 1..(i - 1) : ev[j] = a

\* C26 (Call ordering; as claimed).  Every operation of the client starts
\* by obtaining the token; a read looks into the cache after that and
\* before any request; a write never looks into the cache and clears it
\* only after its request; no request is sent before get_token.
C26_CallOrdering ==
    last.op \in {"read", "write", "plain"} =>
        /\ last.events # <<>> /\ last.events[1] = "get_token"
        /\ Precedes(last.events, "get_token", "request")
        /\ Precedes(last.events, "get_token", "cache_lookup")
        /\ \A i \in 1..Len(last.events) :
               last.events[i] = "cache_lookup"
               => \A j \in 1..(i - 1) : last.events[j] # "request"
        /\ last.op = "write"
           => /\ \A i \in 1..Len(last.events) :
                     last.events[i] # "cache_lookup"
              /\ Precedes(last.events, "request", "cache_clear")

\* C27 (Failed write keeps the cache).  A write that ends in an error, of
\* get_token or of the backend, leaves every cache entry as it was.
C27_FailedWriteKeepsCache ==
    [][(last' # last /\ last'.op = "write" /\ last'.outcome # "ok")
       => (methodCache' = methodCache /\ selfCache' = selfCache)]_vars

\* A write has timed out while a read is cached
C27_Witness ==
    /\ last.op = "write"
    /\ last.outcome = "TimeoutException"
    /\ \E r \in ReadOps : methodCache[r] # <<>>

\* The live entries of instance c
LiveOf(mc, c, t) == {e \in LiveEntries(mc, t) : e[2].key[1] = c}

\* C28 (Per-client cache ownership; as claimed).  An operation of one
\* client instance leaves the live entries of every other instance as they
\* were, and an insert by an instance that holds fewer than CACHE_MAXSIZE
\* live entries evicts none of its own.
C28_PerClientOwnership ==
    [][\A c \in Instances :
          (last' # last /\ now' = now /\ last'.key # <<>>)
          => /\ last'.key[1] # c
                => LiveOf(methodCache', c, now) = LiveOf(methodCache, c, now)
             /\ (/\ last'.key[1] = c
                 /\ Cardinality(LiveOf(methodCache, c, now)) < CACHE_MAXSIZE)
                => LiveOf(methodCache, c, now)
                      \subseteq LiveOf(methodCache', c, now)]_vars

\* The errors of an exchange that the token endpoint causes
EndpointRejections ==
    {"TimeoutException", "HTTPStatusError", "ValidationError"}

\* C29 (Refresh is repeatable; as claimed).  A get_token call that finds
\* the stored token expired with a refresh_token returns a fresh token
\* unless the token endpoint itself rejects the refresh: whether it is the
\* first exchange of the handler or a later one, and whether or not another
\* refresh is in flight.
C29_RefreshRepeatable ==
    [][(/\ last' # last /\ last'.op = "get_token"
        /\ last'.loaded # NoToken
        /\ IsExpired(last'.loaded, now)
        /\ Truthy(last'.loaded.refresh_token)
        /\ last'.exchangeError \notin EndpointRejections)
       => (/\ last'.outcome = "ok"
           /\ last'.token # last'.loaded
           /\ last'.access = last'.token.access_token)]_vars

====
